---------------------------- MODULE Spec2Model ----------------------------
(***************************************************************************)
(* Install-resolve-enable pipeline of the Obsidian plugin installer.       *)
(*                                                                         *)
(*   NetworkManager.downloadFileWithRedirect  src/src/core/PluginEnabler.ts *)
(*   PluginInstaller.installPluginById        src/unnamed/part_001          *)
(*   PluginEnabler.enableInstalledPlugins     src/src/core/PluginEnabler.ts *)
(*                                                                         *)
(* A download is a set of event-loop callbacks (response, data, end,       *)
(* finish, error, timers, unlink completions) over one closure state per   *)
(* hop; every callback is one action.  The async functions are cut at      *)
(* their awaits: one action runs from one await to the next.               *)
(***************************************************************************)
EXTENDS Integers, Sequences, FiniteSets, TLC

\* ---------------------------------------------------------------- constants
MAX_REDIRECTS == 5
MAX_FILE_SIZE == 104857600

\* ------------------------------------------------------------------- bounds
\* data events delivered to one response
MaxChunks == 2

\* sizes of the chunks a server may send, and the content-length headers it may
\* declare (0: header absent)
ChunkSizes == {1, MAX_FILE_SIZE}
ContentLengths == {0, MAX_FILE_SIZE, MAX_FILE_SIZE + 1}
Statuses == {"ok", "redirect", "redirectNoLocation", "other"}

VARIABLES
    dl,         \* the state of the download() call in progress (all its hops)
    pc,         \* installPluginById: the await it is suspended at
    pluginId,   \* installPluginById: its identifier argument
    pluginRegistry, \* installPluginById: what its registry fetch produced
    release,    \* installPluginById: the assets of the release it fetched
    result,     \* installPluginById: what the last call returned
    folders,    \* the plugin folders that exist under the plugins root
    why,        \* installPluginById: the notice the last call ended with
    had,        \* history: the plugin folder existed when the call started
    netCalls,   \* network requests issued by the current installPluginById call
    zipOnDisk,  \* <pluginsFolder>/<pluginId>.zip existed when the last call returned
    epc,        \* enableInstalledPlugins: the await it is suspended at
    pluginIds,  \* enableInstalledPlugins: its list argument
    api,        \* the capabilities of the host's plugins API
    installedPluginIds, manifests, attempt, i,
    enabledCount, failedCount, failedPlugins, successfullyEnabled,
                \* enableInstalledPlugins: its local variables of the same name
    actualPluginId,  \* the key of the enablePlugin call in progress
    hostManifests,   \* pluginsApi.manifests as the host holds it now
    sameObject,      \* manifests is still the object pluginsApi.manifests refers to
    hostLoads,       \* changes the host made to its manifests during the call
    enabledPlugins,  \* pluginsApi.enabledPlugins
    plugins,         \* pluginsApi.plugins
    returned,        \* how the last enableInstalledPlugins call ended
    enableResult,    \* what it returned
    log,             \* history: what each iteration of the attempt loop did
    disk,            \* what lies below the plugins root: directories and files
    zipFiles,        \* unzipPlugin: zip.files, how many of its callbacks were
                     \* started, and the file entries whose content is awaited
    settingsDoc,     \* community-plugins-settings.json: absent, invalid, or parsed
    settingsCall,    \* history: the call of the SettingsManager made last
    run              \* installPluginsFromFile: its list, its position in it, and
                     \* history: the entries that issued a registry fetch

installVars == <<pc, pluginId, pluginRegistry, release, result, why, had, folders, netCalls, zipOnDisk>>
enableVars == <<epc, pluginIds, api, installedPluginIds, manifests, attempt, i,
                enabledCount, failedCount, failedPlugins, successfullyEnabled,
                actualPluginId, hostManifests, sameObject, hostLoads,
                enabledPlugins, plugins, returned, enableResult, log>>
diskVars == <<disk, zipFiles, settingsDoc, settingsCall>>
vars == <<dl, installVars, enableVars, diskVars, run>>

\* ------------------------------------------------------------ download state
\* outcome: "idle" before the call, "pending" until the promise settles, then
\* "resolved" or the reason of the rejection.
Rejections == {"TooManyRedirects", "MissingLocation", "HttpError", "FileTooLarge",
               "Timeout", "WriteError", "NetworkError"}

NoDownload ==
    [ credit          |-> MAX_REDIRECTS, \* maxRedirects of the latest hop
      requests        |-> 0,             \* https.get calls issued
      phase           |-> "none",        \* latest hop: none, awaiting, streaming, closed
      stream          |-> "none",        \* latest hop's write stream: none, open, ending, finished, errored
      listening       |-> FALSE,         \* finish/error listeners registered (200 branch)
      piped           |-> FALSE,         \* res.pipe(file) still attached
      errPending      |-> FALSE,         \* 'error' emitted on the stream, handler not yet run
      timers          |-> {},            \* hops whose whole-transfer timer is armed
      unlinks         |-> {},            \* fs.unlink calls whose callback has not run
      outcome         |-> "idle",
      fileOnDisk      |-> FALSE,         \* dest exists
      bytesDownloaded |-> 0,
      written         |-> 0,             \* bytes the pipe wrote to dest
      chunks          |-> 0,
      timedOut        |-> FALSE,         \* history: a timeout fired while the promise was pending
      declared        |-> FALSE,         \* history: a content-length above the cap was seen
      failedHere      |-> FALSE ]        \* history: dest existed when the promise rejected

Hop(d) == d.requests - 1

Min(S) == CHOOSE x \in S : \A y \in S : x <= y

\* reject(...) / resolve(): a promise settles once.
Settle(d, how) ==
    IF d.outcome = "pending"
    THEN [d EXCEPT !.outcome = how,
                   !.failedHere = (how # "resolved" /\ d.fileOnDisk)]
    ELSE d

\* clearTimeout(timeout) of the latest hop.
ClearTimeout(d) == [d EXCEPT !.timers = @ \ {Hop(d)}]

\* file.close(): WriteStream.close() ends the stream; 'finish' follows once the
\* pending writes are flushed.  Before the 200 branch nothing was written and
\* nobody listens, so the stream is finished at once.
CloseFile(d) ==
    IF d.stream = "open"
    THEN [d EXCEPT !.stream = IF d.listening THEN "ending" ELSE "finished"]
    ELSE d

\* fs.unlink(dest, callback) issued; the callback is named by its kind.
Unlink(d, kind) == [d EXCEPT !.unlinks = @ \cup {kind}]

\* if (maxRedirects < 0): the redirect credit is used up.
CreditExhaustedAtZero(maxRedirects) == maxRedirects <= 0

CreditExhausted(maxRedirects) == maxRedirects < 0

\* The promise executor of one hop.
Invoke(d, maxRedirects) ==
    IF CreditExhausted(maxRedirects)
    THEN Settle([d EXCEPT !.credit = maxRedirects], "TooManyRedirects")
    ELSE [d EXCEPT !.credit = maxRedirects,
                   !.requests = @ + 1,
                   !.phase = "awaiting",
                   !.stream = "open",
                   !.listening = FALSE,
                   !.piped = FALSE,
                   !.errPending = FALSE,
                   !.fileOnDisk = TRUE,
                   !.bytesDownloaded = 0,
                   !.chunks = 0,
                   !.timers = @ \cup {d.requests}]

\* The whole-transfer timer of hop h fires.
OnTimer(d, h) ==
    LET d1 == [d EXCEPT !.timers = @ \ {h}, !.timedOut = @ \/ d.outcome = "pending"]
        d2 == IF h = Hop(d) THEN CloseFile(d1) ELSE d1
    IN  Unlink(d2, "timeout")

\* The request's socket timeout fires.
OnSocketTimeout(d) ==
    Unlink(CloseFile(ClearTimeout([d EXCEPT !.timedOut = @ \/ d.outcome = "pending"])),
           "timeout")

\* The declared content-length is above the cap: clearTimeout, file.close(),
\* fs.unlink(dest, () => reject(File too large)).
AbortDeclaredKeepsFile(d) == Settle(CloseFile(ClearTimeout(d)), "FileTooLarge")

AbortDeclared(d) == Unlink(CloseFile(ClearTimeout(d)), "tooLarge")

\* The response callback of https.get.
OnResponse(d, status, contentLength) ==
    IF contentLength # 0 /\ contentLength > MAX_FILE_SIZE
    THEN AbortDeclared([d EXCEPT !.phase = "closed", !.declared = TRUE])
    ELSE IF status = "redirectNoLocation"
    THEN Settle(ClearTimeout([d EXCEPT !.phase = "closed"]), "MissingLocation")
    ELSE IF status = "redirect"
    THEN Unlink(CloseFile([d EXCEPT !.phase = "closed"]), "redirect")
    ELSE IF status # "ok"
    THEN Settle(ClearTimeout([d EXCEPT !.phase = "closed"]), "HttpError")
    ELSE [d EXCEPT !.phase = "streaming", !.listening = TRUE, !.piped = TRUE]

\* The pipe's own data listener: dest.write(chunk).  A write to a stream that
\* was ended and has not finished destroys it with an error.
PipeWrite(d, size) ==
    IF ~d.piped THEN d
    ELSE IF d.stream = "open" THEN [d EXCEPT !.written = @ + size]
    ELSE IF d.stream = "ending"
    THEN [d EXCEPT !.stream = "errored", !.errPending = TRUE, !.piped = FALSE]
    ELSE d

\* The received bytes are above the cap: clearTimeout, file.close(),
\* fs.unlink(dest, () => reject(File too large)).
AbortExceeded(d) == Unlink(CloseFile(ClearTimeout(d)), "tooLarge")

\* res.on("data"): the size check, then the pipe's listener.
OnData(d, size) ==
    LET n  == d.bytesDownloaded + size
        d1 == [d EXCEPT !.bytesDownloaded = n, !.chunks = @ + 1]
        d2 == IF n > MAX_FILE_SIZE
              THEN AbortExceeded(d1)
              ELSE d1
    IN  PipeWrite(d2, size)

\* The response ends: the pipe ends the file.
OnEnd(d) ==
    LET d1 == [d EXCEPT !.phase = "closed", !.piped = FALSE]
    IN  IF d.piped /\ d.stream = "open" THEN [d1 EXCEPT !.stream = "ending"] ELSE d1

\* file.on("finish").
OnFinish(d) ==
    Settle(ClearTimeout([d EXCEPT !.stream = "finished", !.piped = FALSE]), "resolved")

\* file.on("error").
OnFileError(d) ==
    Unlink(ClearTimeout([d EXCEPT !.errPending = FALSE]), "writeErr")

\* request.on("error").
OnRequestError(d) ==
    Unlink(ClearTimeout([d EXCEPT !.phase = "closed", !.piped = FALSE]), "netErr")

\* The callback of a completed fs.unlink(dest, ...).
UnlinkCallback(d, kind) ==
    CASE kind = "timeout"  -> Settle(d, "Timeout")
      [] kind = "tooLarge" -> Settle(d, "FileTooLarge")
      [] kind = "writeErr" -> Settle(d, "WriteError")
      [] kind = "netErr"   -> Settle(d, "NetworkError")
      [] kind = "redirect" -> Invoke(d, d.credit - 1)

\* fs.unlink completes: dest is gone, then the callback runs.
OnUnlinkDone(d, kind) ==
    UnlinkCallback([d EXCEPT !.unlinks = @ \ {kind}, !.fileOnDisk = FALSE], kind)

\* -------------------------------------------------- download: the event loop
\* The continuation of an await runs before any further event-loop callback.
ContinuationReady == pc \in {"download", "asset"} /\ dl.outcome \notin {"idle", "pending"}

\* downloadFileWithRedirect(url, dest) called with the default maxRedirects.
Download ==
    /\ pc = "idle" /\ dl.outcome = "idle"
    /\ dl' = Invoke([NoDownload EXCEPT !.outcome = "pending"], MAX_REDIRECTS)
    /\ UNCHANGED <<installVars, enableVars, run, diskVars>>

Response ==
    /\ ~ContinuationReady /\ dl.phase = "awaiting"
    /\ \E status \in Statuses, contentLength \in ContentLengths :
           dl' = OnResponse(dl, status, contentLength)
    /\ UNCHANGED <<installVars, enableVars, run, diskVars>>

Data ==
    /\ ~ContinuationReady /\ dl.phase = "streaming" /\ dl.chunks < MaxChunks
    /\ \E size \in ChunkSizes : dl' = OnData(dl, size)
    /\ UNCHANGED <<installVars, enableVars, run, diskVars>>

End ==
    /\ ~ContinuationReady /\ dl.phase = "streaming"
    /\ dl' = OnEnd(dl)
    /\ UNCHANGED <<installVars, enableVars, run, diskVars>>

Finish ==
    /\ ~ContinuationReady /\ dl.stream = "ending"
    /\ dl' = OnFinish(dl)
    /\ UNCHANGED <<installVars, enableVars, run, diskVars>>

\* A write to dest fails (disk full, I/O error): the stream is destroyed.
WriteFails ==
    /\ ~ContinuationReady /\ dl.phase = "streaming" /\ dl.stream = "open"
    /\ dl' = [dl EXCEPT !.stream = "errored", !.errPending = TRUE, !.piped = FALSE]
    /\ UNCHANGED <<installVars, enableVars, run, diskVars>>

FileError ==
    /\ ~ContinuationReady /\ dl.errPending
    /\ dl' = OnFileError(dl)
    /\ UNCHANGED <<installVars, enableVars, run, diskVars>>

RequestError ==
    /\ ~ContinuationReady /\ dl.phase \in {"awaiting", "streaming"}
    /\ dl' = OnRequestError(dl)
    /\ UNCHANGED <<installVars, enableVars, run, diskVars>>

\* Timers of equal delay fire in the order they were armed.
Timer ==
    /\ ~ContinuationReady /\ dl.timers # {}
    /\ dl' = OnTimer(dl, Min(dl.timers))
    /\ UNCHANGED <<installVars, enableVars, run, diskVars>>

SocketTimeout ==
    /\ ~ContinuationReady /\ dl.phase \in {"awaiting", "streaming"}
    /\ dl' = OnSocketTimeout(dl)
    /\ UNCHANGED <<installVars, enableVars, run, diskVars>>

UnlinkDone ==
    /\ ~ContinuationReady
    /\ \E kind \in dl.unlinks : dl' = OnUnlinkDone(dl, kind)
    /\ UNCHANGED <<installVars, enableVars, run, diskVars>>

DownloadEvent ==
    \/ Response \/ Data \/ End \/ Finish \/ WriteFails \/ FileError
    \/ RequestError \/ Timer \/ SocketTimeout \/ UnlinkDone

\* --------------------------------------------------------------- unzipPlugin
\* identifiers of plugins
PluginIds == {<<"foo">>, <<"bar">>}

MaxEntries == 2      \* entries of the archive

\* Names of archive entries: text between and including the "/" separators.
EntryNames ==
    { <<"foo", "/">>, <<"foo", "/", "main.js">>, <<"foo", "/", "manifest.json">>,
      <<"foo", "/", "foo", "/", "x">>, <<"other", "/", "main.js">>,
      <<"main.js">>, <<"foo", "/", "sub", "/">>, <<"foo", "/", "sub">>,
      <<"foo", "bar", "/", "main.js">>, <<"foo", "/", "data.json", "/">>,
      <<"foo", "/", "sub", "/", "x">>, <<"..", "/", "evil.js">> }

\* zip.files in key order: distinct names; an entry is a folder when its name
\* ends with the separator
Archives ==
    { a \in UNION { [1..n -> EntryNames] : n \in 0..MaxEntries } :
        \A j, k \in 1..Len(a) : j # k => a[j] # a[k] }

\* The archives a release of plugin id may carry: its files below a root folder
\* named after it, or a file and a folder of one name.
ReleaseArchives(id) ==
    { << id \o <<"/">>, id \o <<"/", "main.js">>, id \o <<"/", "manifest.json">> >>,
      << id \o <<"/", "sub", "/">>, id \o <<"/", "sub">> >> }

IsDir(name) == name[Len(name)] = "/"

EmptyDisk == [dirs |-> {}, files |-> {}, threw |-> FALSE]

StartsWith(s, prefix) ==
    Len(s) >= Len(prefix) /\ SubSeq(s, 1, Len(prefix)) = prefix

Slice(s, n) == SubSeq(s, n + 1, Len(s))

\* relativePath of an entry: the name unchanged
RelativePathUnstripped(filename, id) == filename

\* relativePath of an entry
RelativePath(filename, id) ==
    IF StartsWith(filename, id \o <<"/">>)
    THEN Slice(filename, Len(id \o <<"/">>))
    ELSE filename

\* The segments of a path, empty ones dropped as path.join does.
RECURSIVE Split(_)
Split(s) ==
    IF s = <<>> THEN <<>>
    ELSE LET k == IF \E n \in 1..Len(s) : s[n] = "/"
                  THEN CHOOSE n \in 1..Len(s) :
                          s[n] = "/" /\ \A m \in 1..(n - 1) : s[m] # "/"
                  ELSE Len(s) + 1
             seg == SubSeq(s, 1, k - 1)
             rest == SubSeq(s, k + 1, Len(s))
         IN IF seg = <<>> THEN Split(rest) ELSE <<seg>> \o Split(rest)

\* path.join(destFolder, relativePath), as segments below the plugins root:
\* a ".." segment takes the segment before it away
Join(dest, rel) ==
    LET RECURSIVE Normalize(_, _)
        Normalize(done, todo) ==
            IF todo = <<>> THEN done
            ELSE IF Head(todo) # <<"..">> THEN Normalize(Append(done, Head(todo)), Tail(todo))
            ELSE IF done = <<>> \/ done[Len(done)] = <<"..">>
            THEN Normalize(Append(done, <<"..">>), Tail(todo))
            ELSE Normalize(SubSeq(done, 1, Len(done) - 1), Tail(todo))
    IN Normalize(<<>>, dest \o Split(rel))

Dirname(path) == SubSeq(path, 1, Len(path) - 1)

Prefixes(path) == { SubSeq(path, 1, k) : k \in 1..Len(path) }

FilePaths(d) == { f.path : f \in d.files }

\* fileExists(path)
Exists(d, path) == path \in d.dirs \/ path \in FilePaths(d)

\* ensureDirectory(path): recursive, a failure is logged and swallowed
EnsureDirectory(d, path) ==
    IF Exists(d, path) \/ Prefixes(path) \cap FilePaths(d) # {}
    THEN d
    ELSE [d EXCEPT !.dirs = @ \cup Prefixes(path)]

\* fs.writeFileSync(path, content): replaces a file, throws on a folder or
\* below something that is not a folder
WriteFileSync(d, path, content) ==
    IF path \in d.dirs \/ (Len(path) > 1 /\ Dirname(path) \notin d.dirs)
    THEN [d EXCEPT !.threw = TRUE]
    ELSE [d EXCEPT !.files = { f \in @ : f.path # path }
                                 \cup {[path |-> path, content |-> content]}]

\* the callback without ensureDirectory(path.dirname(filePath))
ExtractEntryNoParent(d, dest, id, filename) ==
    LET relativePath == RelativePath(filename, id)
        filePath == Join(dest, relativePath)
    IN IF relativePath = <<>> THEN d
       ELSE IF IsDir(filename)
       THEN IF Exists(d, filePath) THEN d ELSE EnsureDirectory(d, filePath)
       ELSE WriteFileSync(d, filePath, filename)

\* The callback unzipPlugin runs for one entry of zip.files.
ExtractEntry(d, dest, id, filename) ==
    LET relativePath == RelativePath(filename, id)
        filePath == Join(dest, relativePath)
    IN IF relativePath = <<>> THEN d
       ELSE IF IsDir(filename)
       THEN IF Exists(d, filePath) THEN d ELSE EnsureDirectory(d, filePath)
       ELSE WriteFileSync(EnsureDirectory(d, Dirname(filePath)), filePath, filename)

\* destFolder is there before the entries are extracted
DestFolder(d, dest) == [EnsureDirectory(d, dest) EXCEPT !.threw = FALSE]

\* ------------------------------------------------------------ SettingsManager
\* Kinds of JSON value a key of the settings document may hold
SettingsValues == {"object", "emptyObject", "null", "zero"}

\* community-plugins-settings.json: not there, there but readFile fails,
\* empty, blank, not JSON, or an object with some of the identifiers as keys
Documents ==
    { [file |-> f, value |-> <<>>] :
        f \in {"absent", "unreadable", "empty", "blank", "invalid"} }
    \cup { [file |-> "json", value |-> v] :
             v \in UNION { [K -> SettingsValues] : K \in SUBSET PluginIds } }

\* the test allSettings[pluginId]
Truthy(v) == v \in {"object", "emptyObject"}

\* JSON.stringify(value, null, 2)
Stringify(v) == <<"json", v, "indent 2">>

\* What a data.json held before: some value, written by the plugin itself
OldContents == { <<"json", v, "compact">> : v \in {"object", "null"} }

DataJson(id) == <<id, <<"data.json">> >>

\* The plugin folders on disk
FoldersOf(d) == { path[1] : path \in { q \in d.dirs : Len(q) = 1 } }

\* writeFile without its catch
WriteFileThrows(d, path, content) ==
    WriteFileSync(EnsureDirectory(d, Dirname(path)), path, content)

\* FileManager.writeFile: the parent folder is made if it is missing, a
\* failure is reported and swallowed
WriteFile(d, path, content) ==
    LET made == EnsureDirectory(d, Dirname(path))
        done == WriteFileSync(made, path, content)
    IN IF done.threw /\ ~made.threw THEN made ELSE done

\* applySettingsForPlugin testing isFileSystemAccessible(dataJsonPath), which
\* makes the plugin folder, before it reads the document
ApplySettingsForPluginProbesFirst(d, doc, id) ==
    IF doc.file = "json" /\ id \in DOMAIN doc.value /\ Truthy(doc.value[id])
    THEN WriteFile(d, DataJson(id), Stringify(doc.value[id]))
    ELSE EnsureDirectory(d, <<id>>)

\* applySettingsForPlugin(pluginId, <pluginsFolder>/<pluginId>, settingsFile):
\* a document that is absent, unreadable, empty or not JSON ends the call
\* before anything is written
ApplySettingsForPlugin(d, doc, id) ==
    IF doc.file = "json" /\ id \in DOMAIN doc.value /\ Truthy(doc.value[id])
    THEN WriteFile(d, DataJson(id), Stringify(doc.value[id]))
    ELSE d

\* the loop of applySettingsToInstalledPlugins over keys
RECURSIVE ApplyKeys(_, _, _)
ApplyKeys(d, doc, keys) ==
    IF keys = {} THEN d
    ELSE LET id == CHOOSE k \in keys : TRUE
             next == IF Exists(d, <<id>>) /\ Truthy(doc.value[id])
                     THEN WriteFile(d, DataJson(id), Stringify(doc.value[id]))
                     ELSE d
         IN ApplyKeys(next, doc, keys \ {id})

\* applySettingsToInstalledPlugins(pluginsFolder, settingsFile)
ApplySettingsToInstalledPlugins(d, doc) ==
    IF doc.file = "json" THEN ApplyKeys(d, doc, DOMAIN doc.value) ELSE d

NoCall == [op |-> "none", id |-> <<>>]

\* A call of applySettingsForPlugin
ApplyOne ==
    /\ pc \in {"idle", "done"}
    /\ \E id \in PluginIds :
        /\ settingsCall' = [op |-> "applySettingsForPlugin", id |-> id]
        /\ disk' = ApplySettingsForPlugin(disk, settingsDoc, id)
    /\ folders' = FoldersOf(disk')
    /\ UNCHANGED <<dl, pc, pluginId, pluginRegistry, release, result, why, had, netCalls, zipOnDisk,
                   enableVars, run, zipFiles, settingsDoc>>

\* A call of applySettingsToInstalledPlugins
ApplyAll ==
    /\ pc \in {"idle", "done"}
    /\ settingsCall' = [op |-> "applySettingsToInstalledPlugins", id |-> <<>>]
    /\ disk' = ApplySettingsToInstalledPlugins(disk, settingsDoc)
    /\ folders' = FoldersOf(disk')
    /\ UNCHANGED <<dl, pc, pluginId, pluginRegistry, release, result, why, had, netCalls, zipOnDisk,
                   enableVars, run, zipFiles, settingsDoc>>

\* ------------------------------------------------------- installPluginById
\* values the pluginId argument may take: identifiers, blank strings, and a
\* value that is not a string
\* A string is the sequence of its pieces: the prefix "obsidian-", a blank, or
\* a word without either.
BlankIds == {<<>>, <<" ">>}
NonStrings == {<<"<number>">>}
Arguments == PluginIds \cup BlankIds \cup NonStrings

RECURSIVE TrimStart(_)
TrimStart(s) == IF s # <<>> /\ Head(s) = " " THEN TrimStart(Tail(s)) ELSE s

RECURSIVE TrimEnd(_)
TrimEnd(s) ==
    IF s # <<>> /\ s[Len(s)] = " " THEN TrimEnd(SubSeq(s, 1, Len(s) - 1)) ELSE s

\* String.prototype.trim
Trim(s) == TrimEnd(TrimStart(s))

LowercaseNot(s) == s

\* String.prototype.toLowerCase
Lowercase(s) == [k \in 1..Len(s) |-> IF s[k] = "FOO" THEN "foo" ELSE s[k]]

\* values of the repo field of a registry entry: strings, and one that is not
Repos ==
    { <<"owner", "/", "repo">>, <<"owner", "/">>, <<"/", "repo">>, <<"owner">>,
      <<"owner", "/", "repo", "/", "x">>, <<>>, <<"<number>">> }

\* pluginRegistry before the fetch has settled and after its last use
NoRegistry == [kind |-> "none", entries |-> <<>>]

\* what the registry fetch may produce: a rejection, JSON that is not an
\* array, or an array of no, one or two entries
RegistryReplies ==
    LET ids == { <<"foo">>, <<"FOO">>, <<" ", "foo", " ">>, <<"obsidian-", "foo">>,
                 <<"foo", "bar">>, <<"bar">>, <<"<number>">> }
        first == { [id |-> <<"foo">>, repo |-> <<"owner">>],
                   [id |-> <<"bar">>, repo |-> <<"owner">>] }
        second == { [id |-> <<"FOO">>, repo |-> <<"owner", "/", "repo">>],
                    [id |-> <<"<number>">>, repo |-> <<"owner", "/", "repo">>] }
    IN { [kind |-> k, entries |-> <<>>] : k \in {"reject", "notArray", "array"} }
       \cup { [kind |-> "array", entries |-> <<e>>] : e \in [id : ids, repo : Repos] }
       \cup { [kind |-> "array", entries |-> <<e, f>>] : e \in first, f \in second }

\* what the release fetch may produce, and the assets of a release
ReleaseReplies == {"reject", "noAssets", "assets"}
AssetLists == {<<>>, <<"zip">>, <<"file">>, <<"file", "file">>, <<"file", "zip">>}

\* !pluginId || typeof pluginId !== "string" || pluginId.trim() === ""
Invalid(id) == id = <<>> \/ id \in NonStrings \/ Trim(id) = <<>>

\* release.assets.find((a) => a.name.endsWith(".zip"))
HasZip(assets) == \E n \in 1..Len(assets) : assets[n] = "zip"

\* return r, after the notice.  The callbacks a download leaves pending act on
\* that call's dest and promise only, and no later call downloads to the same
\* dest (the plugin folder exists by then): they are dropped with the call.
Return(r, notice, zip) ==
    /\ pc' = "done" /\ result' = r /\ why' = notice
    /\ zipOnDisk' = zip /\ dl' = NoDownload

\* The catch of the try around the whole installation.
OuterCatchRethrows == Return("threw", "error", FALSE)

OuterCatch == Return("false", "error", FALSE)

\* fs.unlinkSync(zipPath) on an archive that exists.
UnlinkSync(d) == [d EXCEPT !.fileOnDisk = FALSE]

\* if (fileExists(zipPath)) unlinkSync(zipPath), errors ignored.
CleanupSkipped(d) == d

Cleanup(d) == IF d.fileOnDisk THEN UnlinkSync(d) ELSE d

\* The catch of the try around download and extraction: the temporary archive
\* is removed if it is there.
InnerCatch(d) == Return("false", "downloadOrExtract", Cleanup(d).fileOnDisk)

\* fileExists(pluginFolder)
FolderExistsIgnored(id) == FALSE

FolderExists(id) == id \in folders

\* A fresh downloadFileWithRedirect(url, dest) call from the installer.
StartDownload == Invoke([NoDownload EXCEPT !.outcome = "pending"], MAX_REDIRECTS)

\* community-plugins.json as parsed: no entry, one, the same one twice, two
\* different ones, a blank string before or after one, a value that is not a
\* string
Lists ==
    { <<>>, << <<"foo">> >>, << <<"foo">>, <<"foo">> >>, << <<"foo">>, <<"bar">> >>,
      << <<" ">>, <<"foo">> >>, << <<"foo">>, <<" ">> >>, << <<"<number>">>, <<"foo">> >> }

NoRun == [list |-> <<>>, next |-> 0, installed |-> {}, fetched |-> <<>>]

\* the loop starting a call while the one before is suspended at a fetch
InstallCallNotAwaited ==
    LET NextArguments ==
            IF run = NoRun THEN Arguments
            ELSE IF run.next <= Len(run.list) /\ result # "threw"
            THEN {run.list[run.next]}
            ELSE {}
        NextEntry(fetch) ==
            IF run = NoRun THEN run
            ELSE [run EXCEPT !.next = @ + 1,
                             !.fetched = IF fetch THEN Append(@, run.next) ELSE @]
    IN
    /\ pc \in {"idle", "done", "registry", "release"}
    /\ \E id \in NextArguments :
        /\ pluginId' = id
        /\ had' = (id \in folders)
        /\ netCalls' = IF Invalid(id) \/ FolderExists(id) THEN 0 ELSE 1
        /\ IF Invalid(id)
           THEN Return("false", "invalid", FALSE) /\ run' = NextEntry(FALSE)
           ELSE IF FolderExists(id)
           THEN Return("true", "already", FALSE) /\ run' = NextEntry(FALSE)
           ELSE /\ pc' = "registry" /\ result' = "none" /\ why' = "none"
                /\ zipOnDisk' = FALSE /\ dl' = NoDownload
                /\ run' = NextEntry(TRUE)
    /\ settingsCall' = NoCall /\ pluginRegistry' = NoRegistry
    /\ UNCHANGED <<release, folders, enableVars, disk, zipFiles, settingsDoc>>

\* The call, up to the first await.  While installPluginsFromFile runs the
\* call is for the next entry of its list (a call that threw ends the loop),
\* and the loop moves on; the entry is noted when the call issues a registry
\* fetch.
InstallCall ==
    LET NextArguments ==
            IF run = NoRun THEN Arguments
            ELSE IF run.next <= Len(run.list) /\ result # "threw"
            THEN {run.list[run.next]}
            ELSE {}
        NextEntry(fetch) ==
            IF run = NoRun THEN run
            ELSE [run EXCEPT !.next = @ + 1,
                             !.fetched = IF fetch THEN Append(@, run.next) ELSE @]
    IN
    /\ pc \in {"idle", "done"}
    /\ \E id \in NextArguments :
        /\ pluginId' = id
        /\ had' = (id \in folders)
        /\ netCalls' = IF Invalid(id) \/ FolderExists(id) THEN 0 ELSE 1
        /\ IF Invalid(id)
           THEN Return("false", "invalid", FALSE) /\ run' = NextEntry(FALSE)
           ELSE IF FolderExists(id)
           THEN Return("true", "already", FALSE) /\ run' = NextEntry(FALSE)
           ELSE /\ pc' = "registry" /\ result' = "none" /\ why' = "none"
                /\ zipOnDisk' = FALSE /\ dl' = NoDownload
                /\ run' = NextEntry(TRUE)
    /\ settingsCall' = NoCall /\ pluginRegistry' = NoRegistry
    /\ UNCHANGED <<release, folders, enableVars, disk, zipFiles, settingsDoc>>

\* pluginRegistry.find((p) => p.id.trim().toLowerCase() === normalizedId):
\* the place of the first entry that matches, 0 when there is none, -1 when
\* the test throws on an id that is not a string
RECURSIVE Find(_, _)
Find(entries, id) ==
    IF entries = <<>> THEN 0
    ELSE IF Head(entries).id \in NonStrings THEN -1
    ELSE IF Lowercase(Trim(Head(entries).id)) = Lowercase(Trim(id)) THEN 1
    ELSE LET rest == Find(Tail(entries), id)
         IN IF rest > 0 THEN rest + 1 ELSE rest

\* pluginMeta.repo.split("/")
RECURSIVE RepoParts(_)
RepoParts(repo) ==
    IF \A n \in 1..Len(repo) : repo[n] # "/" THEN <<repo>>
    ELSE LET k == CHOOSE n \in 1..Len(repo) :
                     repo[n] = "/" /\ \A m \in 1..(n - 1) : repo[m] # "/"
         IN <<SubSeq(repo, 1, k - 1)>> \o RepoParts(SubSeq(repo, k + 1, Len(repo)))

\* The registry fetch settles; lookup and repository checks.
RegistryReply ==
    /\ pc = "registry"
    /\ \E reply \in RegistryReplies :
        /\ pluginRegistry' = reply
        /\ IF reply.kind # "array" \/ Find(reply.entries, pluginId) = -1
           THEN OuterCatch /\ UNCHANGED netCalls
           ELSE IF Find(reply.entries, pluginId) = 0
           THEN Return("false", "notFound", FALSE) /\ UNCHANGED netCalls
           ELSE LET pluginMeta == reply.entries[Find(reply.entries, pluginId)]
                IN IF pluginMeta.repo = <<>> \/ pluginMeta.repo \in NonStrings
                   THEN Return("false", "invalidRepo", FALSE) /\ UNCHANGED netCalls
                   ELSE IF Len(RepoParts(pluginMeta.repo)) # 2
                   THEN Return("false", "invalidRepo", FALSE) /\ UNCHANGED netCalls
                   ELSE /\ pc' = "release" /\ netCalls' = netCalls + 1
                        /\ UNCHANGED <<dl, result, why, zipOnDisk>>
    /\ UNCHANGED <<pluginId, release, had, folders, enableVars, run, diskVars>>

\* The release fetch settles; the folder is prepared and the content path chosen.
ReleaseReply ==
    /\ pc = "release"
    /\ \E reply \in ReleaseReplies, assets \in AssetLists, accessible \in BOOLEAN :
        CASE reply = "reject" ->
                 OuterCatch /\ UNCHANGED <<release, folders, netCalls>>
          [] reply = "noAssets" ->
                 Return("false", "noAssets", FALSE) /\ UNCHANGED <<release, folders, netCalls>>
          [] reply = "assets" /\ ~accessible ->
                 Return("false", "permission", FALSE) /\ UNCHANGED <<release, folders, netCalls>>
          [] reply = "assets" /\ accessible ->
                 /\ folders' = folders \cup {pluginId}
                 /\ IF HasZip(assets)
                    THEN /\ dl' = StartDownload /\ netCalls' = netCalls + 1
                         /\ release' = <<>>
                         /\ pc' = "download" /\ UNCHANGED <<result, why, zipOnDisk>>
                    ELSE IF Len(assets) > 0
                    THEN /\ dl' = StartDownload /\ netCalls' = netCalls + 1
                         /\ release' = Tail(assets)
                         /\ pc' = "asset" /\ UNCHANGED <<result, why, zipOnDisk>>
                    ELSE /\ Return("false", "emptyRelease", FALSE)
                         /\ UNCHANGED <<release, netCalls>>
    /\ disk' = IF folders' # folders THEN EnsureDirectory(disk, <<pluginId>>) ELSE disk
    /\ pluginRegistry' = NoRegistry
    /\ UNCHANGED <<pluginId, had, enableVars, run, zipFiles, settingsDoc, settingsCall>>

\* The archive download settles: size validation and the synchronous head of
\* unzipPlugin (existence and size of the archive, reading it).
ArchiveDownloaded ==
    /\ pc = "download" /\ dl.outcome \notin {"idle", "pending"}
    /\ IF dl.outcome # "resolved"
       THEN InnerCatch(dl)
       ELSE IF dl.fileOnDisk /\ dl.written > MAX_FILE_SIZE
       THEN InnerCatch(UnlinkSync(dl))
       ELSE IF ~dl.fileOnDisk
       THEN InnerCatch(dl)
       ELSE pc' = "unzip" /\ UNCHANGED <<dl, result, why, zipOnDisk>>
    /\ UNCHANGED <<pluginId, pluginRegistry, release, had, folders, netCalls, enableVars, run, diskVars>>

\* JSZip.loadAsync settles; the destination folder is prepared.
ArchiveParsed ==
    /\ pc = "unzip"
    /\ \E parsed \in BOOLEAN :
        IF parsed
        THEN /\ pc' = "extract"
             /\ \E files \in ReleaseArchives(pluginId) : zipFiles' = [files |-> files, ran |-> 0, pending |-> {}]
             /\ disk' = DestFolder(disk, <<pluginId>>)
             /\ UNCHANGED <<dl, result, why, zipOnDisk, settingsDoc, settingsCall>>
        ELSE InnerCatch(dl) /\ UNCHANGED diskVars
    /\ UNCHANGED <<pluginId, pluginRegistry, release, had, folders, netCalls, enableVars, run>>

\* unzipPlugin(zipPath, <pluginsFolder>/<pluginId>, pluginId): map calls the
\* callback of the next entry, which runs up to its first await.  A folder
\* entry is done by then; a file entry waits for file.async("nodebuffer").
UnzipEntry ==
    /\ pc = "extract" /\ zipFiles.ran < Len(zipFiles.files)
    /\ LET filename == zipFiles.files[zipFiles.ran + 1]
       IN IF RelativePath(filename, pluginId) # <<>> /\ ~IsDir(filename)
          THEN /\ zipFiles' = [zipFiles EXCEPT !.ran = @ + 1,
                                               !.pending = @ \cup {zipFiles.ran + 1}]
               /\ UNCHANGED disk
          ELSE /\ zipFiles' = [zipFiles EXCEPT !.ran = @ + 1]
               /\ disk' = ExtractEntry(disk, <<pluginId>>, pluginId, filename)
    /\ UNCHANGED <<dl, installVars, enableVars, run, settingsDoc, settingsCall>>

\* The content of one file entry is there, of any of those awaited: the rest
\* of its callback makes the parent folder and writes the file.
EntryContent ==
    /\ pc = "extract" /\ zipFiles.ran = Len(zipFiles.files)
    /\ \E k \in zipFiles.pending :
        /\ disk' = ExtractEntry(disk, <<pluginId>>, pluginId, zipFiles.files[k])
        /\ zipFiles' = [zipFiles EXCEPT !.pending = @ \ {k}]
    /\ UNCHANGED <<dl, installVars, enableVars, run, settingsDoc, settingsCall>>

\* Promise.all settles when every callback has: unzipPlugin returns or throws;
\* the archive is removed, settings are applied.  An
\* exception of applySettingsForPlugin would end in the outer catch.
Unzipped ==
    /\ pc = "extract" /\ zipFiles.ran = Len(zipFiles.files) /\ zipFiles.pending = {}
    /\ IF ~disk.threw /\ dl.fileOnDisk
       THEN \E loadSettingsOnInstall \in BOOLEAN :
                 IF loadSettingsOnInstall
                 THEN LET applied == ApplySettingsForPlugin(disk, settingsDoc, pluginId)
                      IN /\ disk' = applied
                         /\ settingsCall' = [op |-> "applySettingsForPlugin", id |-> pluginId]
                         /\ IF applied.threw
                            THEN OuterCatch
                            ELSE Return("true", "installed", UnlinkSync(dl).fileOnDisk)
                 ELSE /\ Return("true", "installed", UnlinkSync(dl).fileOnDisk)
                      /\ UNCHANGED <<disk, settingsCall>>
       ELSE InnerCatch(dl) /\ UNCHANGED <<disk, settingsCall>>
    /\ UNCHANGED <<pluginId, pluginRegistry, release, had, folders, netCalls, enableVars, run,
                   zipFiles, settingsDoc>>

\* the asset loop without its try: a failed download ends the call
AssetDownloadedAborts ==
    /\ pc = "asset" /\ dl.outcome \notin {"idle", "pending"}
    /\ IF dl.outcome # "resolved"
       THEN OuterCatch /\ UNCHANGED <<release, netCalls, disk, settingsCall>>
       ELSE IF release # <<>>
       THEN /\ dl' = StartDownload /\ netCalls' = netCalls + 1
            /\ release' = Tail(release)
            /\ UNCHANGED <<pc, result, why, zipOnDisk, disk, settingsCall>>
       ELSE /\ UNCHANGED <<release, netCalls>>
            /\ \E loadSettingsOnInstall \in BOOLEAN :
                 IF loadSettingsOnInstall
                 THEN LET applied == ApplySettingsForPlugin(disk, settingsDoc, pluginId)
                      IN /\ disk' = applied
                         /\ settingsCall' = [op |-> "applySettingsForPlugin", id |-> pluginId]
                         /\ IF applied.threw /\ ~disk.threw
                            THEN OuterCatch
                            ELSE Return("true", "installed", FALSE)
                 ELSE /\ Return("true", "installed", FALSE)
                      /\ UNCHANGED <<disk, settingsCall>>
    /\ UNCHANGED <<pluginId, pluginRegistry, had, folders, enableVars, run, zipFiles,
                   settingsDoc>>

\* One asset download settles (a failure is only logged): the next asset, or
\* the settings and the end.
AssetDownloaded ==
    /\ pc = "asset" /\ dl.outcome \notin {"idle", "pending"}
    /\ IF release # <<>>
       THEN /\ dl' = StartDownload /\ netCalls' = netCalls + 1
            /\ release' = Tail(release)
            /\ UNCHANGED <<pc, result, why, zipOnDisk, disk, settingsCall>>
       ELSE /\ UNCHANGED <<release, netCalls>>
            /\ \E loadSettingsOnInstall \in BOOLEAN :
                 IF loadSettingsOnInstall
                 THEN LET applied == ApplySettingsForPlugin(disk, settingsDoc, pluginId)
                      IN /\ disk' = applied
                         /\ settingsCall' = [op |-> "applySettingsForPlugin", id |-> pluginId]
                         /\ IF applied.threw /\ ~disk.threw
                            THEN OuterCatch
                            ELSE Return("true", "installed", FALSE)
                 ELSE /\ Return("true", "installed", FALSE)
                      /\ UNCHANGED <<disk, settingsCall>>
    /\ UNCHANGED <<pluginId, pluginRegistry, had, folders, enableVars, run, zipFiles,
                   settingsDoc>>

InstallStep ==
    \/ InstallCall \/ RegistryReply \/ ReleaseReply
    \/ ArchiveDownloaded \/ ArchiveParsed \/ UnzipEntry \/ EntryContent \/ Unzipped
    \/ AssetDownloaded

\* --------------------------------------------------- enableInstalledPlugins
MaxIds == 2          \* entries of the pluginIds argument

RECURSIVE Range(_)
Range(s) == IF s = <<>> THEN {} ELSE {Head(s)} \cup Range(Tail(s))

\* values an entry of pluginIds may take, and the lists made of them
IdArguments == {<<"foo">>, <<"obsidian-", "foo">>, <<"bar">>, <<" ", "foo">>, <<" ">>}
IdLists == UNION {[1..n -> IdArguments] : n \in 0..MaxIds}

\* keys of the host's manifest registry, and the registries the reload may
\* leave: no key, one key, or two keys in either enumeration order
ManifestKeys == {<<"foo">>, <<"obsidian-", "foo">>, <<"bar">>}
ManifestOptions ==
    {<<>>} \cup {<<k>> : k \in ManifestKeys}
           \cup {m \in ManifestKeys \X ManifestKeys : m[1] # m[2]}

\* pluginsApi.plugins: the loaded plugins, each a key with its manifest.id
PluginsOptions == {<<>>, <<[key |-> <<"bar">>, id |-> <<"foo">>]>>}

\* pluginsApi.enabledPlugins when the manifests are read
EnabledOptions == {{}, {<<"foo">>}}

\* capabilities of the host: no plugins API, one without enablePlugin, a full
\* one, one with no way to reload (no reload command, no load method), one
\* whose reload methods all throw
Apis == {"none", "noEnable", "full", "noReload", "reloadThrows"}

NotInstalled == <<"<not installed>">>

\* s.replace(/^obsidian-/, "")
StripPrefix(s) == IF s # <<>> /\ Head(s) = "obsidian-" THEN Tail(s) ELSE s

MatchesExactly(manifestId, id) == manifestId = id

\* the test of the manifest loop of enableSinglePlugin
Matches(manifestId, id) ==
    \/ manifestId = id
    \/ StripPrefix(manifestId) = StripPrefix(id)
    \/ manifestId = StripPrefix(id)
    \/ <<"obsidian-">> \o manifestId = id

\* for (const manifestId in manifests): the first key that matches
RECURSIVE FirstMatch(_, _)
FirstMatch(keys, id) ==
    IF keys = <<>> THEN NotInstalled
    ELSE IF Matches(Head(keys), id) THEN Head(keys)
    ELSE FirstMatch(Tail(keys), id)

\* for (const key in pluginsList): the first key equal to the identifier or
\* whose plugin has manifest.id equal to it
RECURSIVE InPluginsList(_, _)
InPluginsList(list, id) ==
    IF list = <<>> THEN NotInstalled
    ELSE IF Head(list).key = id \/ Head(list).id = id THEN Head(list).key
    ELSE InPluginsList(Tail(list), id)

\* the manifest lookup without the hasOwnProperty test
ResolveInManifestsLoopOnly(keys, id) == FirstMatch(keys, id)

\* actualPluginId after the manifest lookup: the identifier when it is a key
\* itself, else the first key that matches, else NotInstalled
ResolveInManifests(keys, id) ==
    IF id \in Range(keys) THEN id ELSE FirstMatch(keys, id)

\* actualPluginId of enableSinglePlugin, or NotInstalled
Resolve(keys, list, id) ==
    IF ResolveInManifests(keys, id) # NotInstalled
    THEN ResolveInManifests(keys, id)
    ELSE InPluginsList(list, id)

\* the folder filter: entries that are not blank, trimmed, with a folder
RECURSIVE Installed(_, _)
Installed(ids, dirs) ==
    IF ids = <<>> THEN <<>>
    ELSE IF Trim(Head(ids)) # <<>> /\ Trim(Head(ids)) \in dirs
    THEN <<Trim(Head(ids))>> \o Installed(Tail(ids), dirs)
    ELSE Installed(Tail(ids), dirs)

MaxHostLoads == 1    \* changes the host makes to its manifests during one call

loopVars == <<attempt, i, enabledCount, failedCount, failedPlugins,
              successfullyEnabled, actualPluginId>>
hostVars == <<hostManifests, sameObject, hostLoads, enabledPlugins, plugins>>
countVars == <<enabledCount, failedCount, failedPlugins, successfullyEnabled>>

\* return { enabled, failed, failedPlugins }
ReturnEnable(how, e, f, list) ==
    /\ epc' = "done" /\ returned' = how
    /\ enableResult' = [enabled |-> e, failed |-> f, failedPlugins |-> list]

\* The catch of the try around the whole of enableInstalledPlugins.
EnableCatch(ids) == ReturnEnable("caught", 0, Len(ids), ids)

\* failedPlugins.splice(failedPlugins.indexOf(id), 1)
RECURSIVE Splice(_, _)
Splice(list, id) ==
    IF list = <<>> THEN <<>>
    ELSE IF Head(list) = id THEN Tail(list)
    ELSE <<Head(list)>> \o Splice(Tail(list), id)

\* result.enabled: count it, mark it, and drop its failure record
RecordSuccess(id) ==
    /\ enabledCount' = enabledCount + 1
    /\ successfullyEnabled' = successfullyEnabled \cup {id}
    /\ failedPlugins' = Splice(failedPlugins, id)
    /\ failedCount' = IF id \in Range(failedPlugins) THEN failedCount - 1 ELSE failedCount

RecordFailureAtOnce(id) ==
    /\ IF id \notin Range(failedPlugins)
       THEN failedPlugins' = Append(failedPlugins, id) /\ failedCount' = failedCount + 1
       ELSE UNCHANGED <<failedPlugins, failedCount>>
    /\ UNCHANGED <<enabledCount, successfullyEnabled>>

\* result.failed, or an exception of enableSinglePlugin: recorded on the last
\* attempt only
RecordFailure(id) ==
    /\ IF attempt = 2 /\ id \notin Range(failedPlugins)
       THEN failedPlugins' = Append(failedPlugins, id) /\ failedCount' = failedCount + 1
       ELSE UNCHANGED <<failedPlugins, failedCount>>
    /\ UNCHANGED <<enabledCount, successfullyEnabled>>

\* The call, up to the reload: the guards and the folder filter.
EnableCall ==
    /\ epc = "idle"
    /\ \E ids \in IdLists, a \in Apis, desktop \in BOOLEAN :
        /\ pluginIds' = ids /\ api' = a
        /\ IF ids = <<>> \/ a = "none"
           THEN ReturnEnable("normal", 0, 0, <<>>) /\ UNCHANGED installedPluginIds
           ELSE IF ~desktop
           THEN EnableCatch(ids) /\ UNCHANGED installedPluginIds
           ELSE IF Installed(ids, folders) = <<>>
           THEN ReturnEnable("normal", 0, 0, <<>>) /\ UNCHANGED installedPluginIds
           ELSE /\ installedPluginIds' = Installed(ids, folders)
                /\ epc' = "reload" /\ UNCHANGED <<returned, enableResult>>
    /\ UNCHANGED <<dl, installVars, diskVars, run, manifests, loopVars, hostVars, log>>

\* reloadPlugins without its catches
ReloadEscapes ==
    /\ epc = "reload"
    /\ IF api = "reloadThrows"
       THEN EnableCatch(pluginIds) /\ UNCHANGED <<hostManifests, enabledPlugins, plugins>>
       ELSE /\ epc' = "settle"
            /\ hostManifests' \in IF api = "noReload" THEN {hostManifests} ELSE ManifestOptions
            /\ enabledPlugins' \in EnabledOptions
            /\ plugins' \in PluginsOptions
            /\ UNCHANGED <<returned, enableResult>>
    /\ UNCHANGED <<dl, installVars, diskVars, run, pluginIds, api, installedPluginIds, manifests,
                   loopVars, sameObject, hostLoads, log>>

\* reloadPlugins: the host loads its manifests when a reload method is there
\* and works; no failure of it escapes.
Reload ==
    /\ epc = "reload"
    /\ epc' = "settle"
    /\ hostManifests' \in IF api \in {"noReload", "reloadThrows"}
                          THEN {hostManifests} ELSE ManifestOptions
    /\ enabledPlugins' \in EnabledOptions
    /\ plugins' \in PluginsOptions
    /\ UNCHANGED <<dl, installVars, diskVars, run, pluginIds, api, installedPluginIds, manifests,
                   loopVars, sameObject, hostLoads, returned, enableResult, log>>

\* the manifests read without waiting for the reload and the 5 s
ReadManifestsEarly ==
    /\ epc \in {"reload", "settle"}
    /\ manifests' = hostManifests /\ sameObject' = TRUE
    /\ attempt' = 0 /\ i' = 1
    /\ enabledCount' = 0 /\ failedCount' = 0
    /\ failedPlugins' = <<>> /\ successfullyEnabled' = {}
    /\ epc' = "iter"
    /\ UNCHANGED <<dl, installVars, diskVars, run, pluginIds, api, installedPluginIds, actualPluginId,
                   hostManifests, hostLoads, enabledPlugins, plugins, returned, enableResult, log>>

\* The 5 s wait is over: the manifests are read, the counters initialised.
ReadManifests ==
    /\ epc = "settle"
    /\ manifests' = hostManifests /\ sameObject' = TRUE
    /\ attempt' = 0 /\ i' = 1
    /\ enabledCount' = 0 /\ failedCount' = 0
    /\ failedPlugins' = <<>> /\ successfullyEnabled' = {}
    /\ epc' = "iter"
    /\ UNCHANGED <<dl, installVars, diskVars, run, pluginIds, api, installedPluginIds, actualPluginId,
                   hostManifests, hostLoads, enabledPlugins, plugins, returned, enableResult, log>>

\* What the iteration for installedPluginIds[i] of the current attempt did,
\* with the key it resolved and the lookup that set isInstalled.
Event(what, id, key) ==
    [attempt |-> attempt, i |-> i, id |-> id, key |-> key, what |-> what,
     found |-> IF what = "onProgress threw" THEN "nowhere"
               ELSE IF ResolveInManifests(manifests, id) # NotInstalled THEN "manifests"
               ELSE IF InPluginsList(plugins, id) # NotInstalled THEN "plugins"
               ELSE "nowhere"]

HasNever(id) == FALSE

\* successfullyEnabled.has(pluginId)
Has(id) == id \in successfullyEnabled

IsEnabledNever(key) == FALSE

\* enabledPlugins.has(actualPluginId)
IsEnabled(key) == key \in enabledPlugins

\* One iteration of the inner loop, up to the await of enablePlugin.
Iteration ==
    /\ epc = "iter" /\ i <= Len(installedPluginIds)
    /\ LET id == installedPluginIds[i]
           actual == Resolve(manifests, plugins, id)
       IN  IF Has(id)
           THEN /\ i' = i + 1
                /\ UNCHANGED <<epc, countVars, actualPluginId, returned, enableResult, log>>
           ELSE \E progressThrows \in BOOLEAN :
                IF progressThrows
                THEN /\ EnableCatch(pluginIds)
                     /\ log' = log \cup {Event("onProgress threw", id, NotInstalled)}
                     /\ UNCHANGED <<i, countVars, actualPluginId>>
                ELSE IF actual = NotInstalled
                THEN /\ RecordFailure(id) /\ i' = i + 1
                     /\ log' = log \cup {Event("not installed", id, NotInstalled)}
                     /\ UNCHANGED <<epc, actualPluginId, returned, enableResult>>
                ELSE IF IsEnabled(actual)
                THEN /\ RecordSuccess(id) /\ i' = i + 1
                     /\ log' = log \cup {Event("already enabled", id, actual)}
                     /\ UNCHANGED <<epc, actualPluginId, returned, enableResult>>
                ELSE IF api # "noEnable"
                THEN /\ epc' = "enabling" /\ actualPluginId' = actual
                     /\ log' = log \cup {Event("enablePlugin", id, actual)}
                     /\ UNCHANGED <<i, countVars, returned, enableResult>>
                ELSE /\ RecordFailure(id) /\ i' = i + 1
                     /\ log' = log \cup {Event("no enablePlugin", id, actual)}
                     /\ UNCHANGED <<epc, actualPluginId, returned, enableResult>>
    /\ UNCHANGED <<dl, installVars, diskVars, run, pluginIds, api, installedPluginIds, manifests,
                   attempt, hostVars>>

\* pluginsApi.enablePlugin(actualPluginId) settles: it resolved, or it threw.
EnableSettles ==
    /\ epc = "enabling"
    /\ \E ok \in BOOLEAN :
        IF ok
        THEN /\ enabledPlugins' = enabledPlugins \cup {actualPluginId}
             /\ RecordSuccess(installedPluginIds[i])
             /\ log' = log \cup {Event("enabled", installedPluginIds[i], actualPluginId)}
        ELSE /\ RecordFailure(installedPluginIds[i])
             /\ log' = log \cup {Event("enablePlugin threw", installedPluginIds[i], actualPluginId)}
             /\ UNCHANGED enabledPlugins
    /\ i' = i + 1 /\ epc' = "iter" /\ actualPluginId' = NotInstalled
    /\ UNCHANGED <<dl, installVars, diskVars, run, pluginIds, api, installedPluginIds, manifests,
                   attempt, hostManifests, sameObject, hostLoads, plugins,
                   returned, enableResult>>

\* the attempt loop with a 4th attempt
AttemptEndFourth ==
    /\ epc = "iter" /\ i > Len(installedPluginIds)
    /\ IF Cardinality(successfullyEnabled) = Len(installedPluginIds) \/ attempt = 3
       THEN /\ ReturnEnable("normal", enabledCount, failedCount, failedPlugins)
            /\ UNCHANGED attempt
       ELSE /\ attempt' = attempt + 1 /\ epc' = "delay"
            /\ UNCHANGED <<returned, enableResult>>
    /\ UNCHANGED <<dl, installVars, diskVars, run, pluginIds, api, installedPluginIds, manifests,
                   i, countVars, actualPluginId, hostVars, log>>

\* The end of an attempt: the early exit, the next attempt, or the result.
AttemptEnd ==
    /\ epc = "iter" /\ i > Len(installedPluginIds)
    /\ IF Cardinality(successfullyEnabled) = Len(installedPluginIds) \/ attempt = 2
       THEN /\ ReturnEnable("normal", enabledCount, failedCount, failedPlugins)
            /\ UNCHANGED attempt
       ELSE /\ attempt' = attempt + 1 /\ epc' = "delay"
            /\ UNCHANGED <<returned, enableResult>>
    /\ UNCHANGED <<dl, installVars, diskVars, run, pluginIds, api, installedPluginIds, manifests,
                   i, countVars, actualPluginId, hostVars, log>>

\* The 1 s wait before a further attempt is over.
Delay ==
    /\ epc = "delay"
    /\ epc' = "iter" /\ i' = 1
    /\ UNCHANGED <<dl, installVars, diskVars, run, pluginIds, api, installedPluginIds, manifests,
                   attempt, countVars, actualPluginId, hostVars, returned, enableResult, log>>

\* During a wait the host learns of a plugin: it adds the key to its manifests
\* object, or it replaces the object by one that has the key.
HostLoads ==
    /\ epc = "delay" /\ hostLoads < MaxHostLoads
    /\ \E key \in ManifestKeys \ Range(hostManifests), inPlace \in BOOLEAN :
        /\ hostManifests' = Append(hostManifests, key)
        /\ sameObject' = (sameObject /\ inPlace)
        /\ manifests' = IF sameObject /\ inPlace THEN Append(manifests, key) ELSE manifests
    /\ hostLoads' = hostLoads + 1
    /\ UNCHANGED <<dl, installVars, diskVars, run, epc, pluginIds, api, installedPluginIds, loopVars,
                   enabledPlugins, plugins, returned, enableResult, log>>

EnableStep ==
    \/ EnableCall \/ Reload \/ ReadManifests \/ Iteration \/ EnableSettles
    \/ AttemptEnd \/ Delay \/ HostLoads

\* ------------------------------------------------------------ specifications
InitInstall ==
    /\ pc = "idle" /\ pluginId = <<>> /\ release = <<>> /\ result = "none"
    /\ pluginRegistry = NoRegistry
    /\ why = "none" /\ had = FALSE /\ netCalls = 0 /\ zipOnDisk = FALSE

InitEnableVars ==
    /\ epc = "idle" /\ pluginIds = <<>> /\ api = "full"
    /\ installedPluginIds = <<>> /\ manifests = <<>> /\ attempt = 0 /\ i = 1
    /\ enabledCount = 0 /\ failedCount = 0 /\ failedPlugins = <<>>
    /\ successfullyEnabled = {} /\ actualPluginId = NotInstalled
    /\ hostManifests = <<>> /\ sameObject = TRUE /\ hostLoads = 0
    /\ enabledPlugins = {} /\ plugins = <<>> /\ returned = "no"
    /\ enableResult = [enabled |-> 0, failed |-> 0, failedPlugins |-> <<>>]
    /\ log = {}

NoSettings == [file |-> "absent", value |-> <<>>]

InitDisk ==
    /\ disk = [EmptyDisk EXCEPT !.dirs = { <<id>> : id \in folders }]
    /\ zipFiles = [files |-> <<>>, ran |-> 0, pending |-> {}] /\ settingsCall = NoCall

InitDownload ==
    /\ dl = NoDownload /\ folders = {} /\ InitInstall /\ InitEnableVars /\ run = NoRun
    /\ InitDisk /\ settingsDoc = NoSettings

NextDownload == Download \/ DownloadEvent

SpecDownload == InitDownload /\ [][NextDownload]_vars

\* Plugins installed before the run are already on disk.
Init ==
    /\ dl = NoDownload /\ folders \in SUBSET PluginIds /\ InitInstall /\ InitEnableVars /\ run = NoRun
    /\ InitDisk
    /\ settingsDoc = [file |-> "json", value |-> [id \in PluginIds |-> "object"]]

Next == InstallStep \/ DownloadEvent

Spec == Init /\ [][Next]_vars

\* enableInstalledPlugins, with the plugin folders an installation left
InitEnable ==
    /\ dl = NoDownload /\ folders \in SUBSET ManifestKeys
    /\ InitInstall /\ InitEnableVars /\ run = NoRun /\ InitDisk /\ settingsDoc = NoSettings

NextEnable == EnableStep

\* unzipPlugin extracts an archive that installPluginById downloaded
InitUnzip ==
    /\ dl = [NoDownload EXCEPT !.outcome = "resolved", !.fileOnDisk = TRUE]
    /\ pc = "extract" /\ pluginId \in PluginIds /\ release = <<>>
    /\ pluginRegistry = NoRegistry
    /\ result = "none" /\ why = "none" /\ had = FALSE /\ netCalls = 3
    /\ zipOnDisk = FALSE /\ folders = {pluginId}
    /\ InitEnableVars /\ run = NoRun
    /\ disk = DestFolder(EmptyDisk, <<pluginId>>) /\ zipFiles \in [files : Archives, ran : {0}, pending : {{}}]
    /\ settingsCall = NoCall
    /\ settingsDoc \in Documents

NextUnzip == UnzipEntry \/ EntryContent \/ Unzipped

SpecUnzip == InitUnzip /\ [][NextUnzip]_vars

\* The settings document applied to the plugins on disk, some of them with a
\* data.json of their own
InitSettings ==
    /\ dl = NoDownload /\ folders \in SUBSET PluginIds /\ InitInstall /\ InitEnableVars /\ run = NoRun
    /\ zipFiles = [files |-> <<>>, ran |-> 0, pending |-> {}] /\ settingsCall = NoCall
    /\ settingsDoc \in Documents
    /\ \E old \in [folders -> OldContents \cup {<<>>}] :
         disk = [dirs |-> { <<id>> : id \in folders },
                 files |-> { [path |-> DataJson(id), content |-> old[id]] :
                               id \in { k \in folders : old[k] # <<>> } },
                 threw |-> FALSE]

NextSettings == ApplyOne \/ ApplyAll

SpecSettings == InitSettings /\ [][NextSettings]_vars

\* One installPluginById call into an empty plugins root, then one
\* enableInstalledPlugins call for the same identifier
InitEndToEnd ==
    /\ dl = NoDownload /\ folders = {} /\ InitInstall /\ InitEnableVars /\ run = NoRun
    /\ InitDisk /\ settingsDoc = NoSettings

NextEndToEnd ==
    \/ /\ epc = "idle" /\ pc # "done"
       /\ (InstallStep \/ DownloadEvent)
    \/ /\ pc = "done" /\ epc # "done"
       /\ EnableStep
       /\ pluginIds' = <<pluginId>>

SpecEndToEnd == InitEndToEnd /\ [][NextEndToEnd]_vars

\* installPluginsFromFile at startup, about to make its first
\* installPluginById call.  installed is history: the entries whose plugin
\* folder is there when the run starts.
InitBatch ==
    /\ dl = NoDownload /\ folders \in SUBSET {<<"foo">>} /\ InitInstall /\ InitEnableVars
    /\ InitDisk /\ settingsDoc = NoSettings
    /\ \E list \in Lists :
        run = [list |-> list, next |-> 1, fetched |-> <<>>,
               installed |-> { k \in 1..Len(list) : list[k] \in folders }]

SpecBatch == InitBatch /\ [][Next]_vars

SpecEnable == InitEnable /\ [][NextEnable]_vars

MaxKeys == 3         \* keys of the manifests object

\* identifiers and manifest keys with no, one and two "obsidian-" prefixes
ResolveKeys ==
    {<<"foo">>, <<"obsidian-", "foo">>, <<"obsidian-", "obsidian-", "foo">>,
     <<"bar">>, <<"obsidian-", "bar">>}

\* The attempt loop about to run its first iteration for one identifier,
\* with a manifests object whose keys were inserted in any order
InitResolve ==
    /\ \E id \in ResolveKeys :
          /\ folders = {id} /\ pluginIds = <<id>> /\ installedPluginIds = <<id>>
    /\ dl = NoDownload /\ InitInstall /\ run = NoRun /\ InitDisk /\ settingsDoc = NoSettings
    /\ \E n \in 0..MaxKeys :
          manifests \in { m \in [1..n -> ResolveKeys] :
                            \A a, b \in 1..n : a # b => m[a] # m[b] }
    /\ hostManifests = manifests /\ sameObject = TRUE /\ hostLoads = 0
    /\ epc = "iter" /\ api = "full" /\ attempt = 0 /\ i = 1
    /\ enabledCount = 0 /\ failedCount = 0 /\ failedPlugins = <<>>
    /\ successfullyEnabled = {} /\ actualPluginId = NotInstalled
    /\ enabledPlugins = {} /\ plugins = <<>> /\ returned = "no"
    /\ enableResult = [enabled |-> 0, failed |-> 0, failedPlugins |-> <<>>]
    /\ log = {}

SpecResolve == InitResolve /\ [][Iteration]_vars

\* installPluginById has issued its registry fetch for an identifier that is
\* valid and has no folder; the fetch settles
InitRegistry ==
    /\ dl = NoDownload /\ folders = {} /\ InitEnableVars /\ run = NoRun
    /\ InitDisk /\ settingsDoc = NoSettings
    /\ pc = "registry" /\ pluginId \in PluginIds \cup {<<" ", "FOO">>}
    /\ pluginRegistry = NoRegistry /\ release = <<>> /\ result = "none"
    /\ why = "none" /\ had = FALSE /\ netCalls = 1 /\ zipOnDisk = FALSE

SpecRegistry == InitRegistry /\ [][RegistryReply]_vars

\* ------------------------------------------------------------------ claims
ResolutionFailures == {"notFound", "invalidRepo", "noAssets", "emptyRelease"}

\* no callback of the download is waiting to run
Quiet(d) == d.unlinks = {} /\ d.timers = {} /\ ~d.errPending /\ d.stream # "ending"

\* C1: a call for an identifier whose plugin folder exists when the call starts
\* returns true and issues no network request.
C1_AlreadyInstalledNoNetwork ==
    (pc = "done" /\ had) => (result = "true" /\ netCalls = 0 /\ dl.requests = 0)

C1_Witness == pc = "done" /\ had /\ why = "already" /\ pluginId \in folders

\* C2: installPluginById never throws: every call that has returned returned
\* true or false, whatever failed on the way.
C2_NeverThrows ==
    /\ result \in {"none", "true", "false"}
    /\ pc = "done" => result \in {"true", "false"}

C2_Witness == pc = "done" /\ why = "error" /\ result = "false"

\* C3: a call that returns false because resolution failed (not found, invalid
\* repository, no assets, empty assets array) leaves no plugin folder behind.
C3_ResolutionFailureLeavesNoFolder ==
    (pc = "done" /\ ~had /\ why \in ResolutionFailures)
        => (result = "false" /\ pluginId \notin folders)

\* C4: on the archive path the temporary archive does not exist when
\* installPluginById returns, true or false.
C4_NoArchiveAtReturn == pc = "done" => ~zipOnDisk

C4_Witness == pc = "done" /\ why = "downloadOrExtract" /\ result = "false" /\ ~zipOnDisk

\* C5: whenever download() rejects, dest does not exist when the rejection is
\* delivered.
C5_RejectedLeavesNoFile == dl.outcome \in Rejections => ~dl.failedHere

\* C6: with the default credit a chain of MAX_REDIRECTS redirects and a 200
\* succeeds; one redirect more fails with TooManyRedirects, and no request
\* beyond the first MAX_REDIRECTS + 1 is issued.
C6_RedirectCredit ==
    /\ dl.requests <= MAX_REDIRECTS + 1
    /\ dl.outcome = "TooManyRedirects" => (dl.requests = MAX_REDIRECTS + 1 /\ dl.credit = -1)
    /\ (dl.credit = -1 /\ ~dl.timedOut) => dl.outcome = "TooManyRedirects"
    /\ (dl.listening /\ dl.stream = "finished" /\ ~dl.timedOut) => dl.outcome = "resolved"

C6_Witness == dl.requests = MAX_REDIRECTS + 1 /\ dl.outcome = "resolved" /\ ~dl.timedOut

\* C7: a declared content-length above the cap makes download() reject with
\* FileTooLarge (unless a timeout was delivered first), never resolve, with no
\* byte written and no dest left once the unlink has completed.
C7_DeclaredTooLarge ==
    dl.declared =>
        /\ dl.written = 0
        /\ dl.outcome # "resolved"
        /\ ~dl.timedOut => dl.outcome \in {"pending", "FileTooLarge"}
        /\ "tooLarge" \notin dl.unlinks => (dl.outcome \in Rejections /\ ~dl.fileOnDisk)

C7_Witness == dl.declared /\ dl.outcome = "FileTooLarge" /\ ~dl.fileOnDisk /\ Quiet(dl)

\* C8: when the bytes received exceed the cap, download() has not resolved
\* successfully and never does.
C8_ExceededNeverResolves ==
    dl.bytesDownloaded > MAX_FILE_SIZE => dl.outcome # "resolved"

\* C9: once the whole-transfer timeout has fired with the promise pending,
\* download() does not resolve successfully.
C9_TimeoutNeverResolves == dl.timedOut => dl.outcome # "resolved"

\* C10: in the result of enableInstalledPlugins, no identifier that was marked
\* enabled during the call is listed in failedPlugins or counted in failed.
C10_EnabledNeverReportedFailed ==
    returned # "no" =>
        /\ \A k \in 1..Len(enableResult.failedPlugins) :
               Trim(enableResult.failedPlugins[k]) \notin successfullyEnabled
        /\ enableResult.failed <=
               Cardinality({k \in 1..Len(pluginIds) :
                               Trim(pluginIds[k]) \notin successfullyEnabled})

\* outcomes of an iteration that count as a failure of the identifier
FailureKinds == {"not installed", "enablePlugin threw", "no enablePlugin"}

\* the identifier is in the failedPlugins of the result
Listed(id) ==
    \E k \in 1..Len(enableResult.failedPlugins) : Trim(enableResult.failedPlugins[k]) = id

\* the attempt loop has gone past entry idx of attempt a (i is that of the
\* attempt before while the 1 s wait lasts)
Passed(a, idx) == attempt > a \/ (attempt = a /\ epc # "delay" /\ i > idx)

\* C11: an identifier that nothing resolves on attempt 1 or 2 is not added to
\* failedPlugins then; the loop does not end before the next attempt has tried
\* it again; failedPlugins only holds identifiers that failed on the 3rd
\* attempt, and an identifier unresolved on the 3rd attempt is in it.
C11_PendingUntilFinalAttempt ==
    /\ \A id \in Range(failedPlugins) :
           \E f \in log : f.id = id /\ f.attempt = 2 /\ f.what \in FailureKinds
    /\ \A e \in log : e.what = "not installed" =>
           /\ e.attempt = 2 => e.id \in Range(failedPlugins)
           /\ (e.attempt < 2 /\ Passed(e.attempt + 1, e.i)) =>
                  \E f \in log : f.attempt = e.attempt + 1 /\ f.id = e.id
           /\ (e.attempt < 2 /\ returned = "normal") => Passed(e.attempt + 1, e.i)

C11_Witness ==
    /\ returned = "normal"
    /\ \E e, f \in log :
           /\ e.what = "not installed" /\ e.attempt = 0
           /\ f.what = "not installed" /\ f.attempt = 2 /\ f.id = e.id
           /\ Listed(e.id)

\* C12: no inter-attempt delay and no further attempt takes place once every
\* identifier that passed the folder filter is enabled.
C12_NoDelayOnceAllEnabled ==
    epc = "delay" => ~(Range(installedPluginIds) \subseteq successfullyEnabled)

\* outcomes of an iteration that mark the identifier enabled
SuccessKinds == {"enabled", "already enabled"}

\* iteration f comes after iteration e
After(f, e) == f.attempt > e.attempt \/ (f.attempt = e.attempt /\ f.i > e.i)

\* C13: after the iteration that marked an identifier enabled no iteration
\* calls onProgress, resolves or enables it again; it is marked once and
\* enabledCount counts it once.
C13_EnabledIsSkipped ==
    /\ \A e, f \in log : (e.what \in SuccessKinds /\ f.id = e.id) => ~After(f, e)
    /\ \A e \in log : e.what \in SuccessKinds => e.id \in successfullyEnabled
    /\ enabledCount = Cardinality(successfullyEnabled)
    /\ enabledCount = Cardinality({e \in log : e.what \in SuccessKinds})
    /\ returned = "normal" => enableResult.enabled = Cardinality(successfullyEnabled)

C13_Witness ==
    /\ epc = "iter" /\ attempt > 0
    /\ \E e \in log : e.what \in SuccessKinds /\ e.attempt = 0 /\ i > e.i

\* C14: an iteration that resolves its identifier to a key of the host's
\* enabled set marks the identifier enabled, counts it, and does not call
\* enablePlugin.
C14_AlreadyEnabledNotEnabledAgain ==
    [][(/\ epc = "iter" /\ i <= Len(installedPluginIds)
        /\ installedPluginIds[i] \notin successfullyEnabled
        /\ Resolve(manifests, plugins, installedPluginIds[i]) \in enabledPlugins
        /\ returned' # "caught")
       => /\ epc' # "enabling"
          /\ installedPluginIds[i] \in successfullyEnabled'
          /\ enabledCount' = enabledCount + 1
          /\ enabledPlugins' = enabledPlugins
          /\ {e \in log' : e.what = "enablePlugin"} = {e \in log : e.what = "enablePlugin"}]_vars

C14_Witness ==
    \E e \in log : e.what = "already enabled" /\ e.id \in successfullyEnabled
                      /\ e.key \in enabledPlugins /\ e.key # e.id

\* C15: when the folder filter has run, an identifier without a plugin folder
\* gets no enablePlugin call and is neither listed in the failedPlugins of the
\* result nor counted in its failed and enabled numbers.
C15_FolderlessNotCounted ==
    (returned # "no" /\ installedPluginIds # <<>>) =>
        /\ \A e \in log : e.id \in folders
        /\ \A k \in 1..Len(enableResult.failedPlugins) :
               Trim(enableResult.failedPlugins[k]) \in folders
        /\ enableResult.failed + enableResult.enabled <=
               Cardinality({k \in 1..Len(pluginIds) : Trim(pluginIds[k]) \in folders})

\* C16: an iteration in which enableSinglePlugin runs resolves "obsidian-foo"
\* to the manifest key "foo", "foo" to the manifest key "obsidian-foo", "foo"
\* to the key "foo" when it is one, and finds no manifest key for "foo" when
\* the only key is "bar"; enablePlugin is called with the resolved key.
C16_KeyResolution ==
    [][(/\ epc = "iter" /\ i <= Len(installedPluginIds)
        /\ installedPluginIds[i] \notin successfullyEnabled
        /\ returned' # "caught")
       => \A e \in log' \ log :
            /\ (e.id = <<"obsidian-", "foo">> /\ manifests = << <<"foo">> >>)
                  => (e.key = <<"foo">> /\ e.found = "manifests")
            /\ (e.id = <<"foo">> /\ manifests = << <<"obsidian-", "foo">> >>)
                  => (e.key = <<"obsidian-", "foo">> /\ e.found = "manifests")
            /\ (e.id = <<"foo">> /\ <<"foo">> \in Range(manifests))
                  => (e.key = <<"foo">> /\ e.found = "manifests")
            /\ (e.id = <<"foo">> /\ manifests = << <<"bar">> >>)
                  => /\ e.found # "manifests"
                     /\ InPluginsList(plugins, e.id) = NotInstalled
                           => (e.what = "not installed" /\ epc' # "enabling")
            /\ e.what = "enablePlugin"
                  => /\ epc' = "enabling" /\ actualPluginId' = e.key
                     /\ e.key = Resolve(manifests, plugins, e.id)
            /\ epc' = "enabling" => e.what = "enablePlugin"]_vars

C16_Witness ==
    \E e \in log : /\ e.what = "enabled" /\ e.id = <<"obsidian-", "foo">>
                   /\ e.key = <<"foo">> /\ e.key \in enabledPlugins
                   /\ e.id \notin enabledPlugins

\* C17: the callback for one archive entry strips exactly one leading
\* "<pluginId>/" from the entry's name: "<pluginId>/main.js" is written to
\* <dest>/main.js, "<pluginId>/<pluginId>/x" to <dest>/<pluginId>/x, a name
\* without the prefix below <dest> under its whole name, and the root entry
\* "<pluginId>/" changes nothing on disk.
C17_StripsOneRootSegment ==
    [][(pc = "extract" /\ zipFiles' # zipFiles)
       => LET settled == zipFiles.pending \ zipFiles'.pending
              name == IF settled # {}
                      THEN zipFiles.files[CHOOSE k \in settled : TRUE]
                      ELSE zipFiles.files[zipFiles.ran + 1]
              root == pluginId \o <<"/">>
              Written(path) ==
                  (settled # {} /\ ~disk'.threw)
                     => [path |-> path, content |-> name] \in disk'.files
          IN /\ name = root => disk' = disk
             /\ name = root \o <<"main.js">> => Written(<<pluginId, <<"main.js">> >>)
             /\ name = root \o root \o <<"x">> => Written(<<pluginId, pluginId, <<"x">> >>)
             /\ name = <<"other", "/", "main.js">>
                   => Written(<<pluginId, <<"other">>, <<"main.js">> >>)
             /\ \A rest \in EntryNames :
                   (name = root \o rest /\ ~IsDir(name))
                      => Written(<<pluginId>> \o Split(rest))
             /\ (~StartsWith(name, root) /\ ~IsDir(name) /\ name[1] # "..")
                   => Written(<<pluginId>> \o Split(name))
             /\ \A f \in disk'.files \ disk.files : f.content = name]_vars

C17_Witness ==
    /\ pc = "extract" /\ zipFiles.ran = Len(zipFiles.files) /\ ~disk.threw
    /\ zipFiles.pending = {}
    /\ [path |-> <<pluginId, pluginId, <<"x">> >>,
        content |-> pluginId \o <<"/">> \o pluginId \o <<"/", "x">>] \in disk.files
    /\ [path |-> <<pluginId, <<"other">>, <<"main.js">> >>,
        content |-> <<"other", "/", "main.js">>] \in disk.files

\* C18: when the settings document has a key equal to the identifier of an
\* installed plugin, applySettingsForPlugin for that identifier and
\* applySettingsToInstalledPlugins leave the plugin's data.json holding
\* exactly the document's value for the key, whatever it held before.
C18_SettingsReplaceDataJson ==
    \A id \in folders :
        (/\ settingsDoc.file = "json" /\ id \in DOMAIN settingsDoc.value
         /\ \/ settingsCall.op = "applySettingsToInstalledPlugins"
            \/ settingsCall = [op |-> "applySettingsForPlugin", id |-> id])
        => [path |-> DataJson(id), content |-> Stringify(settingsDoc.value[id])]
               \in disk.files

\* C19: applySettingsToInstalledPlugins skips every key of the document whose
\* plugin folder does not exist: it creates no folder and no data.json for
\* such a key, the plugin folders on disk stay the same, and every other
\* key, whose folder exists, is still applied.
C19_FolderlessKeysSkipped ==
    [][(ApplyAll /\ settingsDoc.file = "json"
           /\ \E k \in DOMAIN settingsDoc.value : k \notin folders)
       => /\ folders' = folders
          /\ \A k \in DOMAIN settingsDoc.value :
                IF k \notin folders
                THEN ~Exists(disk', <<k>>) /\ ~Exists(disk', DataJson(k))
                ELSE [path |-> DataJson(k),
                      content |-> Stringify(settingsDoc.value[k])] \in disk'.files]_vars

C21_RegistryFetchesBounded ==
    /\ Len(run.fetched) <= Len(run.list) - Cardinality(run.installed)
    /\ \A j, k \in 1..Len(run.fetched) : run.fetched[j] = run.fetched[k] => j = k
    /\ \A k \in 1..Len(run.fetched) : run.fetched[k] \notin run.installed

C21_Witness ==
    /\ pc = "done" /\ run.next = 3 /\ Len(run.list) = 2
    /\ run.installed = {1} /\ run.fetched = <<2>>

\* C22: when enableInstalledPlugins has returned, every failure of an
\* identifier (nothing resolves it, enablePlugin threw or is missing, the
\* onProgress call for it threw) left the loop running: each later entry of
\* the filtered list that names another identifier was processed in the same
\* attempt or had been enabled before, and the result counts one outcome per
\* processed entry instead of listing the whole argument as failed.
C22_FailureLeavesOthersProcessed ==
    returned # "no" =>
        \A e \in log : e.what \in FailureKinds \cup {"onProgress threw"} =>
            /\ \A k \in (e.i + 1)..Len(installedPluginIds) :
                   installedPluginIds[k] # e.id =>
                       \/ installedPluginIds[k] \in successfullyEnabled
                       \/ \E f \in log : /\ f.id = installedPluginIds[k]
                                         /\ f.attempt = e.attempt
                                         /\ f.what # "onProgress threw"
            /\ enableResult.enabled = Cardinality(successfullyEnabled)

\* C23: when unzipPlugin has extracted the archive without an exception and
\* the archive file is removed, installPluginById returns true whatever the
\* settings step does: the settings document absent, not parseable, without a
\* usable value for the plugin, or data.json not writable.
C23_SettingsNeverChangeOutcome ==
    [][(/\ pc = "extract" /\ zipFiles.ran = Len(zipFiles.files)
        /\ zipFiles.pending = {} /\ ~disk.threw /\ dl.fileOnDisk)
       => (pc' = "done" /\ result' = "true" /\ why' = "installed")]_vars

\* data.json is a folder of the archive, so the write of the settings failed
C23_Witness ==
    /\ pc = "done" /\ result = "true"
    /\ settingsCall = [op |-> "applySettingsForPlugin", id |-> pluginId]
    /\ settingsDoc.file = "json" /\ pluginId \in DOMAIN settingsDoc.value
    /\ Truthy(settingsDoc.value[pluginId])
    /\ DataJson(pluginId) \in disk.dirs

\* C24: once the registry lookup has matched an entry, installPluginById is
\* at its release fetch exactly when the entry's repo is a string with one "/"
\* that has text on both sides; for every other repo value it has returned
\* false with the invalid repository notice and issued no second request.
C24_OnlyTwoNonEmptySegments ==
    (pluginRegistry.kind = "array" /\ Find(pluginRegistry.entries, pluginId) > 0) =>
        LET repo == pluginRegistry.entries[Find(pluginRegistry.entries, pluginId)].repo
            twoSegments ==
                /\ repo \notin NonStrings /\ repo # <<>>
                /\ Cardinality({n \in 1..Len(repo) : repo[n] = "/"}) = 1
                /\ repo[1] # "/" /\ repo[Len(repo)] # "/"
        IN IF twoSegments
           THEN pc = "release" /\ netCalls = 2
           ELSE /\ pc = "done" /\ result = "false" /\ why = "invalidRepo"
                /\ netCalls = 1

C26_ResolvesAgainstCurrentManifests ==
    [][(/\ epc = "iter" /\ i <= Len(installedPluginIds)
        /\ installedPluginIds[i] \notin successfullyEnabled
        /\ ResolveInManifests(hostManifests, installedPluginIds[i]) # NotInstalled
        /\ returned' # "caught")
       => /\ \A e \in log' \ log : e.what # "not installed"
          /\ (epc' = "enabling"
              \/ \E e \in log' \ log : e.what \in {"already enabled", "no enablePlugin"})]_vars

\* C27: in a call of enableInstalledPlugins the 5 s wait starts when
\* reloadPlugins has run and at no other time, and every step that reads the
\* manifest registry or the enabled set, notes an iteration, starts the
\* attempt loop or calls enablePlugin is taken when the wait is over or later.
C27_ReloadAndSettleFirst ==
    [][/\ (epc' = "settle" /\ epc # "settle") => epc = "reload"
       /\ (\/ manifests' # manifests \/ log' # log \/ attempt' # attempt
           \/ successfullyEnabled' # successfullyEnabled
           \/ epc' = "enabling" \/ (epc' = "iter" /\ epc # "iter"))
          => epc \in {"settle", "iter", "enabling", "delay"}]_vars

C27_Witness ==
    /\ epc = "enabling" /\ attempt = 0 /\ api = "full"
    /\ manifests = hostManifests /\ manifests # <<>>

\* C28: an enablePlugin call that throws on attempt 1 or 2 is not recorded in
\* failedPlugins: an identifier in failedPlugins has a failure on the 3rd
\* attempt.  The identifier is tried again: once the next attempt has passed
\* the entry's place there is a later iteration for the identifier, in the
\* next attempt at the latest, and the call does not return normally before.
\* A call that throws on the 3rd attempt puts the identifier in failedPlugins,
\* where it stays unless a later entry naming it is enabled.
C28_ThrowRecordedOnFinalAttemptOnly ==
    \A e \in log : e.what = "enablePlugin threw" =>
        /\ (e.attempt < 2 /\ e.id \in Range(failedPlugins)) =>
               \E f \in log : f.attempt = 2 /\ f.id = e.id /\ f.what \in FailureKinds
        /\ (e.attempt < 2 /\ Passed(e.attempt + 1, e.i)) =>
               \E f \in log : f.id = e.id /\ After(f, e) /\ f.attempt <= e.attempt + 1
        /\ (e.attempt < 2 /\ returned = "normal") => Passed(e.attempt + 1, e.i)
        /\ e.attempt = 2 =>
               (e.id \in Range(failedPlugins) \/ e.id \in successfullyEnabled)

C28_Witness ==
    /\ returned = "normal"
    /\ \E e, f, g \in log :
           /\ e.what = "enablePlugin threw" /\ e.attempt = 0
           /\ f.what = "enablePlugin threw" /\ f.attempt = 1 /\ f.id = e.id
           /\ g.what = "enablePlugin threw" /\ g.attempt = 2 /\ g.id = e.id
           /\ Listed(e.id) /\ enableResult.failed = 1

\* C29: every step of an enableInstalledPlugins call moves it forward in the
\* order reload, 5 s wait, then for each of at most 3 attempts the entries in
\* turn (an enablePlugin call after its iteration) and the 1 s wait with what
\* the host does during it, so the call ends after a bounded number of steps;
\* a further attempt starts with the 1 s wait; no entry of the filtered list
\* gets more than 3 enablePlugin calls.
C29_BoundedAttemptsAndCalls ==
    [][LET span == 2 * MaxIds + 4 + MaxHostLoads
           Rank(at, a, idx, loads) ==
               CASE at = "idle" -> 0
                 [] at = "reload" -> 1
                 [] at = "settle" -> 2
                 [] at = "delay" -> 3 + a * span + loads
                 [] at = "iter" -> 3 + a * span + MaxHostLoads + 2 * idx
                 [] at = "enabling" -> 3 + a * span + MaxHostLoads + 2 * idx + 1
                 [] at = "done" -> 3 + 3 * span
       IN /\ Rank(epc', attempt', i', hostLoads') > Rank(epc, attempt, i, hostLoads)
          /\ attempt' \in 0..2
          /\ attempt' # attempt => (attempt' = attempt + 1 /\ epc' = "delay")
          /\ (epc = "delay" /\ epc' # "delay") => (epc' = "iter" /\ i' = 1)
          /\ \A k \in 1..Len(installedPluginIds') :
                Cardinality({e \in log' : e.what = "enablePlugin" /\ e.i = k}) <= 3]_vars

C29_Witness ==
    /\ epc = "done" /\ returned = "normal" /\ attempt = 2 /\ hostLoads = MaxHostLoads
    /\ \E k \in 1..Len(installedPluginIds) :
           Cardinality({e \in log : e.what = "enablePlugin" /\ e.i = k}) = 3

\* C30: an enableInstalledPlugins call never ends by throwing.  With a host
\* that has no reload method, or whose reload methods throw, the reload step
\* is followed by the 5 s wait and the wait by the first attempt.  With a host
\* without enablePlugin no enablePlugin call is made, and an identifier that
\* the 3rd attempt resolves and finds not enabled is in failedPlugins and in
\* the result.  With no plugins API the call returns {0, 0, []} at once:
\* nothing is reloaded, no manifest is read, no iteration runs.
C30_MissingCapabilitiesDegrade ==
    [][/\ returned' \in {"no", "normal", "caught"}
       /\ (epc = "reload" /\ api \in {"noReload", "reloadThrows"})
             => (epc' = "settle" /\ returned' = "no" /\ hostManifests' = hostManifests)
       /\ (epc = "settle" /\ api \in {"noReload", "reloadThrows"})
             => (epc' = "iter" /\ attempt' = 0 /\ i' = 1 /\ returned' = "no")
       /\ api' = "noEnable" =>
             /\ epc' # "enabling"
             /\ \A e \in log' : e.what # "enablePlugin"
             /\ \A e \in log' : (e.what = "no enablePlugin" /\ e.attempt = 2) =>
                    /\ e.id \in Range(failedPlugins')
                    /\ returned' = "normal" => Listed(e.id)'
       /\ (epc = "idle" /\ api' = "none") =>
             /\ epc' = "done" /\ returned' = "normal"
             /\ enableResult' = [enabled |-> 0, failed |-> 0, failedPlugins |-> <<>>]
             /\ log' = {} /\ manifests' = manifests /\ hostManifests' = hostManifests]_vars

C30_Witness ==
    /\ api = "reloadThrows" /\ epc = "done" /\ returned = "normal"
    /\ \E e \in log : e.what = "enabled" /\ e.id \in successfullyEnabled

\* C31: in a run of installPluginsFromFile a call of installPluginById starts
\* only when no call is in progress (none made yet, or the last one has
\* returned true or false); it is the call for the next entry of the list, in
\* list order; and whatever an installation does between its start and its
\* return, it does for the entry started last.
C31_OneInstallAtATime ==
    [][run # NoRun =>
          /\ run'.next # run.next =>
                /\ pc \in {"idle", "done"}
                /\ pc = "done" => result \in {"true", "false"}
                /\ run'.next = run.next + 1 /\ run.next <= Len(run.list)
                /\ pluginId' = run.list[run.next]
          /\ (pluginId' # pluginId \/ (pc \in {"idle", "done"} /\ pc' \notin {"idle", "done"}))
                => run'.next = run.next + 1
          /\ pc' # "idle" => pluginId' = run'.list[run'.next - 1]]_vars

C31_Witness ==
    /\ pc = "done" /\ result = "true" /\ why = "installed"
    /\ run.list = << <<"foo">>, <<"bar">> >> /\ run.next = 3
    /\ run.fetched = <<1, 2>> /\ folders = {<<"foo">>, <<"bar">>}

\* C32: whichever awaited file entry gets its content next, the step that
\* writes it finds the parent folder of its destination there: unless a file
\* lies where the parent folder or one of its ancestors should be, the parent
\* is a folder after the step, and the file is written with the entry's
\* content unless its own path is a folder; no write fails for a missing
\* parent.
C32_ParentExistsWhenWritten ==
    [][(pc = "extract" /\ zipFiles.pending \ zipFiles'.pending # {})
       => LET k == CHOOSE n \in zipFiles.pending \ zipFiles'.pending : TRUE
              name == zipFiles.files[k]
              filePath == Join(<<pluginId>>, RelativePath(name, pluginId))
              parent == Dirname(filePath)
          IN IF Prefixes(parent) \cap FilePaths(disk) # {}
             THEN disk'.threw /\ disk'.files = disk.files
             ELSE /\ parent # <<>> => parent \in disk'.dirs
                  /\ IF filePath \in disk.dirs
                     THEN disk'.threw
                     ELSE /\ [path |-> filePath, content |-> name] \in disk'.files
                          /\ disk'.threw = disk.threw]_vars

\* two file entries and no folder entry; one was written into a folder that
\* only its own callback can have made
C32_Witness ==
    /\ pc = "extract" /\ zipFiles.ran = 2 /\ zipFiles.pending = {1} /\ ~disk.threw
    /\ \A n \in 1..2 : ~IsDir(zipFiles.files[n])
    /\ zipFiles.files[2] = pluginId \o <<"/", "sub", "/", "x">>
    /\ <<pluginId, <<"sub">> >> \in disk.dirs
    /\ [path |-> <<pluginId, <<"sub">>, <<"x">> >>, content |-> zipFiles.files[2]] \in disk.files

\* C33: when unzipPlugin has extracted an archive without an exception, the
\* files on disk are those that running the callbacks one after the other in
\* key order leaves, with the same contents, whatever the order in which the
\* awaited contents arrived.
C33_OrderNotSignificant ==
    LET RECURSIVE InKeyOrder(_, _)
        InKeyOrder(d, names) ==
            IF names = <<>> THEN d
            ELSE InKeyOrder(ExtractEntry(d, <<pluginId>>, pluginId, Head(names)), Tail(names))
    IN (/\ pc = "extract" /\ zipFiles.ran = Len(zipFiles.files)
        /\ zipFiles.pending = {} /\ ~disk.threw)
       => disk.files = InKeyOrder(DestFolder(EmptyDisk, <<pluginId>>), zipFiles.files).files

\* C34: on the path without a zip asset, whatever the outcome of an asset's
\* download, the call goes on: when assets remain it starts the download of
\* the next one, and after the last one it returns true with the installed
\* notice; the call leaves the asset loop in no other way.
C34_AssetFailuresDoNotAbort ==
    [][(pc = "asset" /\ (pc' # pc \/ release' # release))
       => /\ dl.outcome \notin {"idle", "pending"}
          /\ IF release # <<>>
             THEN /\ pc' = "asset" /\ release' = Tail(release) /\ result' = "none"
                  /\ dl'.outcome = "pending" /\ netCalls' = netCalls + 1
             ELSE pc' = "done" /\ result' = "true" /\ why' = "installed"]_vars

\* the download of the second of two assets has failed, the loop having gone
\* on from the first
C34_Witness ==
    /\ pc = "asset" /\ release = <<>> /\ netCalls = 4
    /\ dl.outcome \in Rejections /\ pluginId \in folders

\* C35: when installPluginById has returned false with the download or
\* extraction notice, the plugin folder it made is still there; and a call
\* for an identifier whose folder was left by a failed call returns true with
\* the already installed notice, having made no network request.
C35_FailedInstallLooksInstalled ==
    /\ (pc = "done" /\ why = "downloadOrExtract")
          => (result = "false" /\ pluginId \in folders /\ <<pluginId>> \in disk.dirs)
    /\ (run # NoRun /\ pc = "done" /\ had /\ (run.next - 1) \notin run.installed)
          => (result = "true" /\ why = "already" /\ netCalls = 0
              /\ (run.next - 1) \notin Range(run.fetched))

\* the list names foo twice; the first call made the folder and failed in the
\* extraction, the second has returned
C35_Witness ==
    /\ pc = "done" /\ result = "true" /\ why = "already" /\ netCalls = 0
    /\ run.list = << <<"foo">>, <<"foo">> >> /\ run.next = 3 /\ run.fetched = <<1>>
    /\ run.installed = {} /\ disk.threw /\ zipFiles.files # <<>>

\* C36: applySettingsForPlugin and applySettingsToInstalledPlugins fail soft:
\* when the settings document is absent, unreadable, empty, blank or not
\* valid JSON the call returns without an exception and leaves the disk as
\* it was: no plugin folder and no data.json is created or changed.
C36_FailSoft ==
    [][((ApplyOne \/ ApplyAll) /\ settingsDoc.file # "json")
       => /\ disk' = disk /\ ~disk'.threw
          /\ folders' = folders]_vars

\* applySettingsToInstalledPlugins has returned on a document that is not
\* JSON, with a plugin on disk that has a data.json and one that has none
C36_Witness ==
    /\ settingsCall.op = "applySettingsToInstalledPlugins"
    /\ settingsDoc.file = "invalid"
    /\ folders = PluginIds
    /\ Cardinality(disk.files) = 1

\* C37: once download() has resolved with the destination file on disk,
\* nothing still pending from that download (a timer armed by an earlier
\* redirect hop, an unlink callback) removes the file: from a state in which
\* the promise is resolved and the file exists, every step of the download
\* leaves the file on disk.
C37_ResolvedFileStays ==
    [][(dl.outcome = "resolved" /\ dl.fileOnDisk) => dl'.fileOnDisk]_vars

\* C38: the accounting of enableInstalledPlugins.  At every point of the
\* attempt loop enabledCount is the number of distinct identifiers marked
\* enabled, failedCount is the length of failedPlugins, and failedPlugins
\* names no identifier twice; when the loop has ended and the call returns
\* its counters, every identifier that passed the folder filter is either
\* marked enabled or listed in failedPlugins, never both and never neither,
\* and the result carries these counters.
C38_Accounting ==
    /\ epc \in {"iter", "enabling", "delay", "done"}
          => /\ enabledCount = Cardinality(successfullyEnabled)
             /\ failedCount = Len(failedPlugins)
             /\ Cardinality(Range(failedPlugins)) = Len(failedPlugins)
    /\ (epc = "done" /\ returned = "normal" /\ installedPluginIds # <<>>)
          => /\ \A id \in Range(installedPluginIds) :
                   (id \in successfullyEnabled) # (id \in Range(failedPlugins))
             /\ enableResult = [enabled |-> enabledCount, failed |-> failedCount,
                                failedPlugins |-> failedPlugins]

\* the call has returned after the third attempt with one identifier enabled
\* and another one failed
C38_Witness ==
    /\ epc = "done" /\ returned = "normal" /\ attempt = 2
    /\ enableResult.enabled = 1 /\ enableResult.failed = 1
    /\ Len(installedPluginIds) >= 2

\* C39: the manifest key enableSinglePlugin resolves for an identifier does
\* not depend on the enumeration order of the manifests' keys: a key equal to
\* the identifier is the one chosen; when there is none, at most one key
\* passes the prefix tests; so every manifests object with the same keys, in
\* whatever order, resolves to the same key, and the key an iteration passed
\* to enablePlugin is that key.
C39_OrderIndependent ==
    LET id == installedPluginIds[1]
        keys == Range(manifests)
        Orders == { q \in [1..Len(manifests) -> keys] : Range(q) = keys }
    IN  /\ id \in keys => ResolveInManifests(manifests, id) = id
        /\ id \notin keys => Cardinality({ k \in keys : Matches(k, id) }) <= 1
        /\ \A q \in Orders :
              /\ ResolveInManifests(q, id) = ResolveInManifests(manifests, id)
              /\ epc = "enabling" => actualPluginId = ResolveInManifests(q, id)

\* the identifier is the last of three keys, a key that passes the prefix
\* tests comes before it, and the iteration has resolved the identifier itself
C39_Witness ==
    /\ epc = "enabling" /\ Len(manifests) = MaxKeys
    /\ manifests[MaxKeys] = installedPluginIds[1]
    /\ Matches(manifests[1], installedPluginIds[1])
    /\ actualPluginId = installedPluginIds[1]

\* C40: everything unzipPlugin creates lies inside the destination folder:
\* whatever the names of the archive's entries, every directory and every
\* file on disk during and after the extraction is the plugin folder or
\* lies below it.
C40_ExtractStaysInside ==
    \A p \in disk.dirs \cup FilePaths(disk) : p # <<>> /\ p[1] = pluginId

====
